---- MODULE Spec2Model ----
(***************************************************************************)
(* The Termux clipboard backend of arboard (src/platform/android.rs):      *)
(* Clipboard::new probes the two command-line utilities, Get::text runs    *)
(* termux-clipboard-get and decodes its output, Set::text pipes the text   *)
(* into termux-clipboard-set, Clear::clear is Set::text of "".             *)
(*                                                                         *)
(* Text is a sequence of bytes.  The caller is one thread (pc); the        *)
(* subprocess it spawned last is `child`, which runs concurrently with it. *)
(***************************************************************************)
EXTENDS Integers, Sequences, FiniteSets, TLC

\* Longest text written, held by the clipboard or emitted by a utility.
MaxLen == 2
\* Capacity of the pipe between Set::text and the set utility, in bytes.
PipeCap == 1

\* Bytes are numbers: 10 is the line feed, 97 is 'a', <<195, 169>> is U+00E9
\* and 255 occurs in no UTF-8.  The caller's texts are made of these two.
TextByte == {10, 97}

SeqsUpTo(S, n) == UNION {[1..k -> S] : k \in 0..n}

---------------------------------------------------------------------------
(* UTF-8, as String::from_utf8 and String::from_utf8_lossy decide it.      *)

At(s, i) == IF i >= 1 /\ i <= Len(s) THEN s[i] ELSE -1

Cont(b) == b >= 128 /\ b <= 191

\* Whether b may follow the lead byte `lead` as its second byte.
Second(lead, b) ==
    CASE lead = 224 -> b >= 160 /\ b <= 191
      [] lead = 237 -> b >= 128 /\ b <= 159
      [] lead = 240 -> b >= 144 /\ b <= 191
      [] lead = 244 -> b >= 128 /\ b <= 143
      [] OTHER -> Cont(b)

\* The number of bytes the encoding starting with `lead` has; 0: no lead byte.
Utf8Len(lead) ==
    CASE lead >= 0 /\ lead < 128 -> 1
      [] lead >= 194 /\ lead <= 223 -> 2
      [] lead >= 224 /\ lead <= 239 -> 3
      [] lead >= 240 /\ lead <= 244 -> 4
      [] OTHER -> 0

\* The width of the well-formed character at s[i], 0 when there is none.
Utf8Width(s, i) ==
    LET n == Utf8Len(s[i]) IN
    CASE n = 0 -> 0
      [] n = 1 -> 1
      [] n = 2 -> IF Cont(At(s, i + 1)) THEN 2 ELSE 0
      [] n = 3 -> IF Second(s[i], At(s, i + 1)) /\ Cont(At(s, i + 2)) THEN 3 ELSE 0
      [] OTHER -> IF /\ Second(s[i], At(s, i + 1))
                     /\ Cont(At(s, i + 2))
                     /\ Cont(At(s, i + 3)) THEN 4 ELSE 0

\* The bytes an ill-formed sequence at s[i] takes: its longest prefix that
\* starts some character, at least one byte.
Utf8ErrorLen(s, i) ==
    LET n == Utf8Len(s[i]) IN
    IF n < 3 \/ ~Second(s[i], At(s, i + 1)) THEN 1
    ELSE IF n = 3 \/ ~Cont(At(s, i + 2)) THEN 2
    ELSE 3

RECURSIVE Utf8ValidFrom(_, _)
Utf8ValidFrom(s, i) ==
    IF i > Len(s) THEN TRUE
    ELSE LET w == Utf8Width(s, i) IN w > 0 /\ Utf8ValidFrom(s, i + w)

\* String::from_utf8 succeeds exactly on these, and then keeps the bytes.
IsUtf8(s) == Utf8ValidFrom(s, 1)

\* U+FFFD REPLACEMENT CHARACTER, encoded.
Replacement == <<239, 191, 189>>

RECURSIVE LossyFrom(_, _)
LossyFrom(s, i) ==
    IF i > Len(s) THEN <<>>
    ELSE LET w == Utf8Width(s, i) IN
         IF w > 0 THEN SubSeq(s, i, i + w - 1) \o LossyFrom(s, i + w)
         ELSE Replacement \o LossyFrom(s, i + Utf8ErrorLen(s, i))

\* String::from_utf8_lossy.
from_utf8_lossy(s) == LossyFrom(s, 1)

\* str::trim for the white space of the alphabet (the line feed).
RECURSIVE trim_start(_)
trim_start(s) == IF s # <<>> /\ Head(s) = 10 THEN trim_start(Tail(s)) ELSE s
RECURSIVE trim_end(_)
trim_end(s) ==
    IF s # <<>> /\ s[Len(s)] = 10 THEN trim_end(SubSeq(s, 1, Len(s) - 1)) ELSE s
trim(s) == trim_end(trim_start(s))

---------------------------------------------------------------------------
(* Values.                                                                 *)

\* The &str values a caller passes: well-formed UTF-8.
Texts == {t \in SeqsUpTo(TextByte, MaxLen) : IsUtf8(t)}
\* What other applications put on the clipboard, and what the get utility
\* then emits: text, also text that is not UTF-8.
ExtTexts == {<<>>, <<97, 10>>, <<195, 169>>, <<255>>}
\* What a failing utility leaves on its standard error and standard output.
StderrTexts == {<<>>, <<97>>, <<255>>, <<195>>, <<195, 169>>}
JunkOut == {<<>>, <<255>>}
\* What the standard input the caller's process was started with still holds
\* when it is not a terminal.
StdinData == {<<>>, <<97>>}

GetUtil == "termux-clipboard-get"
SetUtil == "termux-clipboard-set"
Utils == {GetUtil, SetUtil}

\* termux_get() / termux_set(): the command each builds.
termux_get == [util |-> GetUtil, stdin |-> "default", stdout |-> "default"]
termux_set == [util |-> SetUtil, stdin |-> "default", stdout |-> "default"]
\* Command::stdin(Stdio::piped()).
stdin_piped(cmd) == [cmd EXCEPT !.stdin = "piped"]

NoChild ==
    [util |-> "none", stdin |-> "none", stdout |-> "none", st |-> "none",
     code |-> 0, inb |-> <<>>, eof |-> FALSE, out |-> <<>>, errb |-> <<>>]

\* The process Command::spawn starts from command `cmd`: a stream the command
\* does not configure is inherited from the caller's process.
Spawned(cmd) ==
    [NoChild EXCEPT !.util = cmd.util,
                    !.stdin = IF cmd.stdin = "default" THEN "inherit" ELSE cmd.stdin,
                    !.stdout = IF cmd.stdout = "default" THEN "inherit" ELSE cmd.stdout,
                    !.st = "running"]
\* The process Command::output starts: standard output and error are captured,
\* and a standard input the command does not configure is the null device.
SpawnedForOutput(cmd) ==
    [NoChild EXCEPT !.util = cmd.util,
                    !.stdin = IF cmd.stdin = "default" THEN "null" ELSE cmd.stdin,
                    !.stdout = "piped",
                    !.st = "running"]

NoRet ==
    [obj |-> "none", call |-> "none", ok |-> FALSE, kind |-> "none",
     util |-> "none", what |-> "none", text |-> <<>>]

\* Ok(value) of operation obj::call; `text` is the value when it is a String.
Ok(obj, call, text) ==
    [NoRet EXCEPT !.obj = obj, !.call = call, !.ok = TRUE, !.text = text]
\* Err(Error::unknown(description)): the description names `util`, is the
\* format string `what` and carries `detail`.
ErrUnknown(obj, call, util, what, detail) ==
    [NoRet EXCEPT !.obj = obj, !.call = call, !.kind = "Unknown", !.util = util,
                  !.what = what, !.text = detail]
\* Err(Error::ConversionFailure), Err(Error::ClipboardNotSupported).
ErrKind(obj, call, kind) == [NoRet EXCEPT !.obj = obj, !.call = call, !.kind = kind]

---------------------------------------------------------------------------
(* State.                                                                  *)

VARIABLES
    clipboard,  \* what the Termux clipboard service holds
    stdin0,     \* the standard input of the caller's process: [open, data]
    pc,         \* where the caller is
    child,      \* the subprocess spawned last
    pipe,       \* bytes in the pipe to the child's standard input
    pipeW,      \* whether the caller still holds the pipe's write end
    arg,        \* the text of the last Set::text, and who called it
    todo,       \* the bytes of arg that write_all has still to write
    ret,        \* what the last call returned, until the caller's next one
    session,    \* whether the caller holds a Clipboard
    ops,        \* the operation objects (Get, Set, Clear) that borrow it
    trace,      \* what the last call did to its subprocesses
    touched,    \* whether a subprocess of the last Clipboard::new changed
                \* the clipboard
    setOk,      \* whether the last Set::text returned Ok
    quiet       \* whether the clipboard was left alone from outside since
                \* the last Set::text began

vars ==
    <<clipboard, stdin0, pc, child, pipe, pipeW, arg, todo, ret, session,
      ops, trace, touched, setOk, quiet>>

NoArg == [text |-> <<>>, via |-> "none"]

OpKinds == {"Get", "Set", "Clear"}
NoOps == [k \in OpKinds |-> 0]
Outstanding == ops["Get"] + ops["Set"] + ops["Clear"]

Init ==
    /\ clipboard \in ExtTexts
    /\ stdin0 \in {[open |-> TRUE, data |-> <<>>]}
                  \cup {[open |-> FALSE, data |-> d] : d \in StdinData}
    /\ pc = "idle"
    /\ child = NoChild
    /\ pipe = <<>>
    /\ pipeW = FALSE
    /\ arg = NoArg
    /\ todo = <<>>
    /\ ret = NoRet
    /\ session = FALSE
    /\ ops = NoOps
    /\ trace = <<>>
    /\ touched = FALSE
    /\ setOk = FALSE
    /\ quiet = FALSE

\* The child as a call that has returned leaves it: what it read and wrote
\* is gone with its streams.
Left(c) == [NoChild EXCEPT !.util = c.util, !.st = c.st]

---------------------------------------------------------------------------
(* Clipboard::new.                                                         *)

\* The outcomes of Command::spawn: a child, ErrorKind::NotFound, another error.
SpawnOutcomes == {"ok", "NotFound", "Other"}

Event(util, what) == <<util, what>>

NotFoundText == "command not found. Please install Termux:API."

\* Mutant of NewSpawnError: a missing utility is reported like any other
\* failure to spawn.
NewSpawnError_Generic(util, outcome) ==
    ErrUnknown("Clipboard", "new", util, "Error while testing for", <<>>)

\* The error Clipboard::new returns when spawning `util` failed with `outcome`.
NewSpawnError(util, outcome) ==
    IF outcome = "NotFound"
    THEN ErrUnknown("Clipboard", "new", util, NotFoundText, <<>>)
    ELSE ErrUnknown("Clipboard", "new", util, "Error while testing for", <<>>)

InNew == pc \in {"new_spawn_get", "new_kill_get", "new_spawn_set", "new_kill_set"}

\* The caller enters Clipboard::new.  It holds no operation object: each
\* borrows the Clipboard the result is going to replace.
NewBegin ==
    /\ pc = "idle"
    /\ Outstanding = 0
    /\ pc' = "new_spawn_get"
    /\ ret' = NoRet
    /\ trace' = <<>>
    /\ touched' = FALSE
    /\ child' = Left(child)
    /\ UNCHANGED <<clipboard, stdin0, pipe, pipeW, arg, todo, session, ops,
                   setOk, quiet>>

ProbeCommand(util) == IF util = GetUtil THEN termux_get ELSE termux_set
PcSpawn(util) == IF util = GetUtil THEN "new_spawn_get" ELSE "new_spawn_set"
PcKill(util) == IF util = GetUtil THEN "new_kill_get" ELSE "new_kill_set"

\* match termux_get().spawn() / termux_set().spawn().
NewSpawn(util) ==
    /\ pc = PcSpawn(util)
    /\ \E outcome \in SpawnOutcomes :
         /\ trace' = Append(trace, Event(util, outcome))
         /\ IF outcome = "ok"
            THEN /\ child' = Spawned(ProbeCommand(util))
                 /\ pc' = PcKill(util)
                 /\ UNCHANGED ret
            ELSE /\ ret' = NewSpawnError(util, outcome)
                 /\ pc' = "idle"
                 /\ UNCHANGED child
    /\ UNCHANGED <<clipboard, stdin0, pipe, pipeW, arg, todo, session, ops,
                   touched, setOk, quiet>>

\* Where Clipboard::new goes on after the probe of `util` was killed: to the
\* probe of the set utility, and after that to Ok(Clipboard).
NewAfterKill(util) ==
    IF util = GetUtil
    THEN /\ pc' = "new_spawn_set"
         /\ UNCHANGED <<ret, session>>
    ELSE /\ pc' = "idle"
         /\ ret' = Ok("Clipboard", "new", <<>>)
         /\ session' = TRUE

\* Mutant of NewKill: the result of child.kill() is dropped instead of
\* propagated with `?`.
NewKill_Unchecked(util) ==
    /\ pc = PcKill(util)
    /\ \/ /\ child.st = "running"
          /\ child' = Left([child EXCEPT !.st = "killed"])
          /\ trace' = Append(trace, Event(util, "killed"))
       \/ /\ child.st = "exited"
          /\ child' = Left([child EXCEPT !.st = "reaped"])
          /\ trace' = Append(trace, Event(util, "kill failed"))
    /\ NewAfterKill(util)
    /\ UNCHANGED <<clipboard, stdin0, pipe, pipeW, arg, todo, ops, touched,
                   setOk, quiet>>

\* child.kill().map_err(..)?: a running child is killed.  The signal reaches a
\* child that has exited too, unless the system has reaped it already: then
\* there is no such process, kill fails and `?` returns the error.
NewKill(util) ==
    /\ pc = PcKill(util)
    /\ \/ /\ child.st = "running"
          /\ child' = Left([child EXCEPT !.st = "killed"])
          /\ trace' = Append(trace, Event(util, "killed"))
          /\ NewAfterKill(util)
       \/ /\ child.st = "exited"
          /\ child' = Left(child)
          /\ trace' = Append(trace, Event(util, "killed"))
          /\ NewAfterKill(util)
       \/ /\ child.st = "exited"
          /\ child' = Left([child EXCEPT !.st = "reaped"])
          /\ trace' = Append(trace, Event(util, "kill failed"))
          /\ ret' = ErrUnknown("Clipboard", "new", util,
                               "Failed to kill test process for", <<>>)
          /\ pc' = "idle"
          /\ UNCHANGED session
    /\ UNCHANGED <<clipboard, stdin0, pipe, pipeW, arg, todo, ops, touched,
                   setOk, quiet>>

---------------------------------------------------------------------------
(* The utilities, as processes.                                            *)

\* termux-clipboard-get writes the clipboard's text to its standard output
\* and exits 0.
ChildGetEmit ==
    /\ child.st = "running"
    /\ child.util = GetUtil
    /\ child' = [child EXCEPT !.out = clipboard, !.st = "exited", !.code = 0]
    /\ UNCHANGED <<clipboard, stdin0, pc, pipe, pipeW, arg, todo, ret, session,
                   ops, trace, touched, setOk, quiet>>

\* termux-clipboard-set reads its standard input until it is closed: a byte
\* of it, or its end.
ChildSetRead ==
    /\ child.st = "running"
    /\ child.util = SetUtil
    /\ ~child.eof
    /\ \/ /\ child.stdin = "piped"
          /\ pipe # <<>>
          /\ child' = [child EXCEPT !.inb = Append(@, Head(pipe))]
          /\ pipe' = Tail(pipe)
          /\ UNCHANGED stdin0
       \/ /\ child.stdin = "piped"
          /\ pipe = <<>>
          /\ ~pipeW
          /\ child' = [child EXCEPT !.eof = TRUE]
          /\ UNCHANGED <<pipe, stdin0>>
       \/ /\ child.stdin = "inherit"
          /\ stdin0.data # <<>>
          /\ child' = [child EXCEPT !.inb = Append(@, Head(stdin0.data))]
          /\ stdin0' = [stdin0 EXCEPT !.data = Tail(@)]
          /\ UNCHANGED pipe
       \/ /\ child.stdin = "inherit"
          /\ stdin0.data = <<>>
          /\ ~stdin0.open
          /\ child' = [child EXCEPT !.eof = TRUE]
          /\ UNCHANGED <<pipe, stdin0>>
    /\ UNCHANGED <<clipboard, pc, pipeW, arg, todo, ret, session, ops, trace,
                   touched, setOk, quiet>>

\* ... then replaces the clipboard's content with what it read and exits 0.
ChildSetStore ==
    /\ child.st = "running"
    /\ child.util = SetUtil
    /\ child.eof
    /\ clipboard' = child.inb
    /\ touched' = (touched \/ (InNew /\ child.inb # clipboard))
    /\ child' = [child EXCEPT !.st = "exited", !.code = 0]
    /\ UNCHANGED <<stdin0, pc, pipe, pipeW, arg, todo, ret, session, ops,
                   trace, setOk, quiet>>

\* A utility fails: it exits non-zero, with a diagnostic on standard error,
\* and leaves the clipboard alone.
ChildFail ==
    /\ child.st = "running"
    /\ \E e \in StderrTexts, o \in JunkOut :
         child' = [child EXCEPT !.st = "exited", !.code = 1,
                                !.errb = IF child.stdout = "piped" THEN e ELSE <<>>,
                                !.out = IF child.stdout = "piped" THEN o ELSE <<>>]
    /\ UNCHANGED <<clipboard, stdin0, pc, pipe, pipeW, arg, todo, ret, session,
                   ops, trace, touched, setOk, quiet>>

\* Another application changes the clipboard.
ExternalModify ==
    /\ \E t \in ExtTexts :
         /\ t # clipboard
         /\ clipboard' = t
    /\ quiet' = FALSE
    /\ UNCHANGED <<stdin0, pc, child, pipe, pipeW, arg, todo, ret, session,
                   ops, trace, touched, setOk>>

---------------------------------------------------------------------------
(* The operation objects.  Get::new, Set::new and Clear::new each take     *)
(* `&'clipboard mut Clipboard`: the object borrows the Clipboard mutably   *)
(* until it is consumed, so none is made while another is outstanding.     *)

\* The caller moves on from the last call's result and makes an object.
Borrow(kind) ==
    /\ ops' = [ops EXCEPT ![kind] = @ + 1]
    /\ ret' = NoRet
    /\ trace' = <<>>
    /\ child' = Left(child)
    /\ UNCHANGED <<clipboard, stdin0, pc, pipe, pipeW, arg, todo, session,
                   touched, setOk, quiet>>

\* Mutant of GetNew: the object borrows the Clipboard shared (`&Clipboard`),
\* as its field does.
GetNew_Shared ==
    /\ pc = "idle"
    /\ session
    /\ ops["Set"] = 0
    /\ ops["Clear"] = 0
    /\ Borrow("Get")

GetNew ==
    /\ pc = "idle"
    /\ session
    /\ Outstanding = 0
    /\ Borrow("Get")

SetNew ==
    /\ pc = "idle"
    /\ session
    /\ Outstanding = 0
    /\ Borrow("Set")

ClearNew ==
    /\ pc = "idle"
    /\ session
    /\ Outstanding = 0
    /\ Borrow("Clear")

\* Every method takes `self`: the call consumes the object.
Consume(kind) ==
    /\ pc = "idle"
    /\ ops[kind] > 0
    /\ ops' = [ops EXCEPT ![kind] = @ - 1]

\* An object goes out of scope unused.
OpDrop ==
    /\ \E kind \in OpKinds : Consume(kind)
    /\ UNCHANGED <<clipboard, stdin0, pc, child, pipe, pipeW, arg, todo, ret,
                   session, trace, touched, setOk, quiet>>

Modalities == {"html", "image", "file_list"}

---------------------------------------------------------------------------
(* Get.                                                                    *)

\* Mutant of GetTextResult: the output is decoded before the exit status is
\* looked at.
GetTextResult_DecodeFirst(code, out, errb) ==
    IF ~IsUtf8(out)
    THEN ErrKind("Get", "text", "ConversionFailure")
    ELSE IF code # 0
         THEN ErrUnknown("Get", "text", GetUtil, "exited with non-zero status:",
                         from_utf8_lossy(errb))
         ELSE Ok("Get", "text", out)

\* What Get::text makes of the Output of the get utility.
GetTextResult(code, out, errb) ==
    IF code # 0
    THEN ErrUnknown("Get", "text", GetUtil, "exited with non-zero status:",
                    from_utf8_lossy(errb))
    ELSE IF IsUtf8(out)
         THEN Ok("Get", "text", out)
         ELSE ErrKind("Get", "text", "ConversionFailure")

\* termux_get().output(): the spawn.
GetTextSpawn ==
    /\ Consume("Get")
    /\ \E outcome \in SpawnOutcomes :
         /\ trace' = <<Event(GetUtil, outcome)>>
         /\ IF outcome = "ok"
            THEN /\ child' = SpawnedForOutput(termux_get)
                 /\ pc' = "get_output"
                 /\ ret' = NoRet
            ELSE /\ ret' = ErrUnknown("Get", "text", GetUtil, "Failed to execute", <<>>)
                 /\ pc' = "idle"
                 /\ UNCHANGED child
    /\ UNCHANGED <<clipboard, stdin0, pipe, pipeW, arg, todo, session,
                   touched, setOk, quiet>>

\* termux_get().output(): the child has exited and its output is collected,
\* or collecting it fails; then the rest of Get::text.
GetTextOutput ==
    /\ pc = "get_output"
    /\ child.st = "exited"
    /\ child' = [child EXCEPT !.st = "reaped"]
    /\ \/ /\ ret' = GetTextResult(child.code, child.out, child.errb)
          /\ trace' = Append(trace, Event(GetUtil, "output"))
       \/ /\ ret' = ErrUnknown("Get", "text", GetUtil, "Failed to execute", <<>>)
          /\ trace' = Append(trace, Event(GetUtil, "output failed"))
    /\ pc' = "idle"
    /\ UNCHANGED <<clipboard, stdin0, pipe, pipeW, arg, todo, session, ops,
                   touched, setOk, quiet>>

\* Mutant of GetUnsupported: the request runs the get utility before it
\* reports the modality as unsupported.
GetUnsupported_Runs ==
    /\ Consume("Get")
    /\ \E m \in Modalities : ret' = ErrKind("Get", m, "ClipboardNotSupported")
    /\ child' = SpawnedForOutput(termux_get)
    /\ UNCHANGED <<clipboard, stdin0, pc, pipe, pipeW, arg, todo, session,
                   trace, touched, setOk, quiet>>

\* Get::html, Get::image, Get::file_list.
GetUnsupported ==
    /\ Consume("Get")
    /\ \E m \in Modalities : ret' = ErrKind("Get", m, "ClipboardNotSupported")
    /\ UNCHANGED <<clipboard, stdin0, pc, child, pipe, pipeW, arg, todo,
                   session, trace, touched, setOk, quiet>>

---------------------------------------------------------------------------
(* Set and Clear.                                                          *)

\* Set::text(text), entered through `via`: the spawn, and process.stdin.take().
SetTextCall(text, via) ==
    /\ arg' = [text |-> text, via |-> via]
    /\ setOk' = FALSE
    /\ quiet' = TRUE
    /\ \E outcome \in SpawnOutcomes :
         /\ trace' = <<Event(SetUtil, outcome)>>
         /\ IF outcome = "ok"
            THEN LET process == Spawned(stdin_piped(termux_set)) IN
                 /\ child' = process
                 /\ pipe' = <<>>
                 /\ pipeW' = (process.stdin = "piped")
                 /\ todo' = IF process.stdin = "piped" THEN text ELSE <<>>
                 /\ pc' = IF process.stdin = "piped" THEN "set_write" ELSE "set_wait"
                 /\ ret' = NoRet
            ELSE /\ ret' = ErrUnknown("Set", "text", SetUtil, "Failed to execute", <<>>)
                 /\ pc' = "idle"
                 /\ UNCHANGED <<child, pipe, pipeW, todo>>
    /\ UNCHANGED <<clipboard, stdin0, session, touched>>

SetText ==
    /\ Consume("Set")
    /\ \E text \in Texts : SetTextCall(text, "Set")

\* Clear::clear: Set::new(self.clipboard).text(Cow::from("")).
ClearClear ==
    /\ Consume("Clear")
    /\ SetTextCall(<<>>, "Clear")

\* stdin.write_all: one write of the loop; it blocks while the pipe is full.
SetTextWrite ==
    /\ pc = "set_write"
    /\ todo # <<>>
    /\ child.st = "running"
    /\ Len(pipe) < PipeCap
    /\ pipe' = Append(pipe, Head(todo))
    /\ todo' = Tail(todo)
    /\ UNCHANGED <<clipboard, stdin0, pc, child, pipeW, arg, ret, session, ops,
                   trace, touched, setOk, quiet>>

\* stdin.write_all(..).map_err(..)?: the child has exited, the pipe has no
\* reader and the write fails; `?` returns, and drops stdin on the way.
SetTextWriteFail ==
    /\ pc = "set_write"
    /\ todo # <<>>
    /\ child.st = "exited"
    /\ ret' = ErrUnknown("Set", "text", SetUtil, "Failed to write to stdin of", <<>>)
    /\ trace' = Append(trace, Event(SetUtil, "write failed"))
    /\ pipeW' = FALSE
    /\ pipe' = <<>>
    /\ todo' = <<>>
    /\ child' = Left(child)
    /\ pc' = "idle"
    /\ UNCHANGED <<clipboard, stdin0, arg, session, ops, touched, setOk, quiet>>

\* Mutant of SetTextClose: stdin outlives the block (it is bound outside the
\* `if let`) and is still open while Set::text waits.
SetTextClose_KeepsOpen ==
    /\ pc = "set_write"
    /\ todo = <<>>
    /\ trace' = Append(trace, Event(SetUtil, "written"))
    /\ pc' = "set_wait"
    /\ UNCHANGED <<clipboard, stdin0, child, pipe, pipeW, arg, todo, ret,
                   session, ops, touched, setOk, quiet>>

\* write_all has written everything; the `if let` block ends and drops stdin,
\* which closes the pipe's write end.
SetTextClose ==
    /\ pc = "set_write"
    /\ todo = <<>>
    /\ pipeW' = FALSE
    /\ trace' = Append(trace, Event(SetUtil, "written"))
    /\ pc' = "set_wait"
    /\ UNCHANGED <<clipboard, stdin0, child, pipe, arg, todo, ret, session,
                   ops, touched, setOk, quiet>>

\* What Set::text returns for the exit status the wait gave.
SetTextResult(code) ==
    IF code # 0
    THEN ErrUnknown("Set", "text", SetUtil, "exited with non-zero status.", <<>>)
    ELSE Ok("Set", "text", <<>>)

\* process.wait(): it returns once the child has exited, with its status, or
\* fails because the system has reaped the child already.
SetTextWait ==
    /\ pc = "set_wait"
    /\ child.st = "exited"
    /\ child' = Left([child EXCEPT !.st = "reaped"])
    /\ \/ /\ ret' = SetTextResult(child.code)
          /\ trace' = Append(trace, Event(SetUtil, "waited"))
          /\ setOk' = (child.code = 0)
       \/ /\ ret' = ErrUnknown("Set", "text", SetUtil, "Failed to wait for", <<>>)
          /\ trace' = Append(trace, Event(SetUtil, "wait failed"))
          /\ UNCHANGED setOk
    /\ pipe' = <<>>
    /\ pc' = "idle"
    /\ UNCHANGED <<clipboard, stdin0, pipeW, arg, todo, session, ops, touched,
                   quiet>>

\* Set::html, Set::image, Set::file_list.
SetUnsupported ==
    /\ Consume("Set")
    /\ \E m \in Modalities : ret' = ErrKind("Set", m, "ClipboardNotSupported")
    /\ UNCHANGED <<clipboard, stdin0, pc, child, pipe, pipeW, arg, todo,
                   session, trace, touched, setOk, quiet>>

---------------------------------------------------------------------------
(* The system.                                                             *)

Next ==
    \/ NewBegin
    \/ \E util \in Utils : NewSpawn(util)
    \/ \E util \in Utils : NewKill(util)
    \/ GetNew
    \/ SetNew
    \/ ClearNew
    \/ OpDrop
    \/ GetTextSpawn
    \/ GetTextOutput
    \/ GetUnsupported
    \/ SetText
    \/ ClearClear
    \/ SetTextWrite
    \/ SetTextWriteFail
    \/ SetTextClose
    \/ SetTextWait
    \/ SetUnsupported
    \/ ChildGetEmit
    \/ ChildSetRead
    \/ ChildSetStore
    \/ ChildFail
    \/ ExternalModify

Spec == Init /\ [][Next]_vars

\* The system schedules what can run: the caller's next step in Set::text
\* and the next step of the set utility are taken if they stay possible.
FairSpec ==
    /\ Spec
    /\ WF_vars(SetTextWrite)
    /\ WF_vars(SetTextWriteFail)
    /\ WF_vars(SetTextClose)
    /\ WF_vars(SetTextWait)
    /\ WF_vars(ChildSetRead)
    /\ WF_vars(ChildSetStore)

---------------------------------------------------------------------------
(* Properties of Clipboard::new.                                           *)

Last(s) == s[Len(s)]

\* Clipboard::new has returned and the caller has not moved on.
NewReturned == pc = "idle" /\ ret.obj = "Clipboard" /\ ret.call = "new"

\* Clipboard::new has returned because a spawn failed with NotFound.
NewNotFound == NewReturned /\ trace # <<>> /\ Last(trace)[2] = "NotFound"

\* C1, as stated: when either utility cannot be found at spawn time,
\* Clipboard::new fails with an error of kind BackendUnavailable and returns
\* no Clipboard.
C1_BackendUnavailable ==
    NewNotFound => ~ret.ok /\ ret.kind = "BackendUnavailable"

\* C1, amended: when either utility cannot be found at spawn time,
\* Clipboard::new returns no Clipboard but an error of kind Unknown, whose
\* description names the missing utility and asks to install Termux:API.
C1_NotFoundIsUnknown ==
    NewNotFound =>
        /\ ~ret.ok
        /\ ret.kind = "Unknown"
        /\ ret.util = Last(trace)[1]
        /\ ret.what = NotFoundText

\* The get probe was spawned and killed, and the set utility is not found.
C1_Witness ==
    /\ NewReturned
    /\ Len(trace) = 3
    /\ Last(trace) = <<SetUtil, "NotFound">>
    /\ ret.kind = "Unknown"

BothProbed ==
    <<Event(GetUtil, "ok"), Event(GetUtil, "killed"),
      Event(SetUtil, "ok"), Event(SetUtil, "killed")>>

\* C9: Clipboard::new probes termux-clipboard-get first and spawns
\* termux-clipboard-set only after the get probe was spawned and killed; a
\* failed spawn or kill of either probe is the last thing it does before it
\* returns an error; it returns a Clipboard only after both probes were
\* spawned and killed.
C9_ProbeOrder ==
    (InNew \/ NewReturned) =>
        /\ \A i \in 1..Len(trace) :
             /\ trace[i][1] = SetUtil =>
                  /\ i >= 3
                  /\ trace[1] = Event(GetUtil, "ok")
                  /\ trace[2] = Event(GetUtil, "killed")
             /\ trace[i][2] \notin {"ok", "killed"} =>
                  /\ i = Len(trace)
                  /\ NewReturned
                  /\ ~ret.ok
        /\ (NewReturned /\ ret.ok) => trace = BothProbed
        /\ (NewReturned /\ ~ret.ok) => trace # BothProbed

\* The kill of the set probe failed, after three steps that succeeded.
C9_Witness ==
    /\ NewReturned
    /\ ~ret.ok
    /\ Len(trace) = 4
    /\ Last(trace) = Event(SetUtil, "kill failed")

\* C6: whatever the probe subprocesses do before they are killed, the
\* clipboard after Clipboard::new is the clipboard before it: no subprocess of
\* Clipboard::new changes it.
C6_NewLeavesClipboard == NewReturned => ~touched

---------------------------------------------------------------------------
(* Properties of Get, Set and Clear.                                       *)

\* Get::text has returned and the caller has not moved on.
GetTextReturned == pc = "idle" /\ ret.obj = "Get" /\ ret.call = "text"

\* Set::text has returned and the caller has not moved on.
SetTextReturned == pc = "idle" /\ ret.obj = "Set" /\ ret.call = "text"

\* C2: after a Set::text(T) that returned Ok, with no modification of the
\* clipboard from outside since, the next Get::text that returns a text
\* returns exactly T.
C2_RoundTrip ==
    (GetTextReturned /\ ret.ok /\ setOk /\ quiet) => ret.text = arg.text

\* C3: after a Clear::clear that returned Ok, with no modification of the
\* clipboard from outside since, the next Get::text that returns a text
\* returns the empty string.
C3_ClearThenEmpty ==
    (GetTextReturned /\ ret.ok /\ setOk /\ quiet /\ arg.via = "Clear")
        => ret.text = <<>>

\* C4: a request for an unsupported modality (html, image, file_list of Get
\* and of Set) returns ClipboardNotSupported in whatever state it is made,
\* spawns no subprocess and leaves the clipboard and every stream alone.
C4_UnsupportedFrame ==
    [][(pc = "idle" /\ ops' # ops /\ ret'.call \in Modalities) =>
           /\ ~ret'.ok
           /\ ret'.kind = "ClipboardNotSupported"
           /\ ret'.obj \in {"Get", "Set"}
           /\ ops[ret'.obj] = 1
           /\ pc' = "idle"
           /\ child' = child
           /\ clipboard' = clipboard
           /\ pipe' = pipe
           /\ stdin0' = stdin0]_vars

\* Set::image was refused while the clipboard holds a text and the subprocess
\* of an earlier call is still there, exited.
C4_Witness ==
    /\ pc = "idle"
    /\ ret = ErrKind("Set", "image", "ClipboardNotSupported")
    /\ clipboard = <<97, 10>>
    /\ child.st = "exited"

\* C5: Set::text returns only after it has waited for the subprocess it
\* spawned, whether the write to its input succeeded, failed or was skipped.
C5_AlwaysWaits ==
    (SetTextReturned /\ trace # <<>> /\ trace[1] = Event(SetUtil, "ok"))
        => child.st = "reaped"

\* C7, as stated: a Get needs only shared access, so that one can be made
\* while no Set and no Clear is outstanding (even with a Get outstanding),
\* while a Set or a Clear excludes every other operation.
C7_SharedRead ==
    /\ (pc = "idle" /\ session /\ ops["Set"] = 0 /\ ops["Clear"] = 0)
           => ENABLED GetNew
    /\ (ops["Set"] + ops["Clear"] > 0) => Outstanding = 1

\* C7, amended: every operation object, a Get as much as a Set or a Clear,
\* borrows the Clipboard exclusively, so that at most one operation is
\* outstanding at any time and none can be made while one is.
C7_Exclusive ==
    /\ Outstanding <= 1
    /\ Outstanding = 1 =>
           ~(ENABLED GetNew) /\ ~(ENABLED SetNew) /\ ~(ENABLED ClearNew)

\* A Get is outstanding.
C7_Witness == pc = "idle" /\ session /\ ops["Get"] = 1

\* C8: Get::text decides its result in this order.  When the utility could
\* not be run, Unknown.  Otherwise, on a non-zero exit status, Unknown with a
\* description that names termux-clipboard-get and carries the standard
\* error, decoded with every ill-formed byte sequence replaced, whatever the
\* standard output holds.  Otherwise, when the standard output is not UTF-8,
\* ConversionFailure.  Otherwise the standard output as it is, white space
\* at its ends included.
C8_GetTextOrder ==
    GetTextReturned =>
        IF Last(trace)[2] # "output"
        THEN ~ret.ok /\ ret.kind = "Unknown" /\ ret.util = GetUtil
        ELSE /\ child.code # 0 =>
                  /\ ~ret.ok
                  /\ ret.kind = "Unknown"
                  /\ ret.util = GetUtil
                  /\ ret.what = "exited with non-zero status:"
                  /\ IsUtf8(ret.text)
                  /\ IsUtf8(child.errb) => ret.text = child.errb
                  /\ child.errb \in {<<255>>, <<195>>} => ret.text = Replacement
             /\ (child.code = 0 /\ ~IsUtf8(child.out)) =>
                  /\ ~ret.ok
                  /\ ret.kind = "ConversionFailure"
             /\ (child.code = 0 /\ IsUtf8(child.out)) =>
                  /\ ret.ok
                  /\ ret.text = child.out
                  /\ child.out = <<97, 10>> => trim(ret.text) = <<97>>

\* The utility failed, with ill-formed bytes on both streams.
C8_Witness ==
    /\ GetTextReturned
    /\ child.code # 0
    /\ child.out = <<255>>
    /\ child.errb = <<255>>
    /\ ret.kind = "Unknown"

\* C10: in Set::text the subprocess's input is closed before the wait
\* begins, and a Set::text that has spawned its subprocess returns.
C10_ClosedBeforeWait ==
    /\ [](pc = "set_wait" => ~pipeW)
    /\ (pc \in {"set_write", "set_wait"}) ~> (pc = "idle")

\* Set::text is in its wait and the utility, still reading, has yet to see
\* the end of its input.
C10_Witness ==
    /\ pc = "set_wait"
    /\ child.st = "running"
    /\ ~child.eof
    /\ Len(arg.text) = MaxLen

====
